---- MODULE Spec2Model ----
(***************************************************************************)
(* Model of the encode path of pdn-avif's native layer:                    *)
(*   AvifNative.cpp        CompressImage, CompressWithAOM, ScopedAOMImage   *)
(*   ChromaSubsampling.cpp ColorToYUV8, AlphaToY8, ConvertColorToAOMImage,  *)
(*                         ConvertAlphaToAOMImage                          *)
(*                                                                         *)
(* Memory is modelled byte by byte: the BGRA raster is a function of the   *)
(* byte offset from scan0, every plane of a native image is a function of  *)
(* the byte offset from the plane pointer, and every access uses the       *)
(* source's own index arithmetic (x + y * stride).  float values are       *)
(* modelled as exact rationals [n, d]; the quantisation of yuvToUNorm is   *)
(* computed as the code computes it (bias, clamp, scale, floor(v + 0.5)).  *)
(***************************************************************************)
EXTENDS Integers, Sequences, FiniteSets, TLC

\* ------------------------------------------------------------------------
\* Bounds of the model
\* ------------------------------------------------------------------------
\* largest raster width and height
MaxDim == 3
\* largest number of padding pixels at the end of a raster row
MaxPad == 1
\* number of distinct raster contents
NumSeeds == 1

\* ------------------------------------------------------------------------
\* Program constants
\* ------------------------------------------------------------------------
\* sizeof(ColorBgra): four bytes per pixel, order b, g, r, a
SizeofColorBgra == 4
\* the align argument of aom_img_alloc
ImgAlign == 16

\* a ScopedAOMImage is <<>> when it holds nullptr and <<img>> otherwise
NULL == <<>>

VARIABLES
    pc,              \* position of the call
    args,            \* which pointer arguments of CompressImage are non-null
    bgraImage,       \* the BitmapData: width, height, stride, seed of scan0
    yuvFormat,       \* encodeOptions->yuvFormat
    colorInfo,       \* matrix coefficients identifier of the colour info
    progressDone,    \* progressContext->progressDone
    callbackCalls,   \* number of invocations of progressCallback
    callbackReturned, \* what each invocation of progressCallback returned
    result,          \* the EncoderStatus returned, "none" until the return
    aomFormat,       \* local of CompressWithAOM
    color,           \* ScopedAOMImage color: NULL or the native image
    alpha,           \* ScopedAOMImage alpha: NULL or the native image
    heap,            \* per native image: calls of aom_img_alloc, images it
                     \* returned, calls of aom_img_free
    writes,          \* per native image and plane: stores per byte offset
    oob,             \* a store or load left the buffer it addresses
    yuvCoefficiants, \* local of ColorToYUV8
    coeffStatus,     \* outcome of GetYUVCoefficiants
    yuvBlock,        \* local YUVBlock yuvBlock[2][2] of ColorToYUV8
    imageX,          \* loop counters of ColorToYUV8
    imageY,
    lastAvg,         \* the averages computed for the most recent block
    alphaRow,        \* loop counter y of AlphaToY8
    codecCalls,      \* number of calls of CompressAOMImages
    outputs          \* which output pointers have been written

vars == <<pc, args, bgraImage, yuvFormat, colorInfo, progressDone,
          callbackCalls, callbackReturned, result, aomFormat, color, alpha,
          heap, writes, oob, yuvCoefficiants, coeffStatus, yuvBlock, imageX,
          imageY, lastAvg, alphaRow, codecCalls, outputs>>

\* ------------------------------------------------------------------------
\* Arithmetic helpers
\* ------------------------------------------------------------------------
RECURSIVE GCD(_, _)
GCD(a, b) == IF b = 0 THEN a ELSE GCD(b, a % b)

Rat(n, d) == [n |-> n, d |-> d]

\* q * k for a positive integer k, cancelling the common factor of k and q.d
RatMul(q, k) ==
    LET g == GCD(k, q.d) IN Rat(q.n * (k \div g), q.d \div g)

\* q / k for a positive integer k
RatDiv(q, k) == Rat(q.n, q.d * k)

RatEq(p, q) == p.n * (q.d \div GCD(p.d, q.d)) = q.n * (p.d \div GCD(p.d, q.d))

CeilHalf(n) == (n + 1) \div 2

RatAdd(p, q) ==
    LET g == GCD(p.d, q.d)
    IN Rat(p.n * (q.d \div g) + q.n * (p.d \div g), (p.d \div g) * q.d)

\* ------------------------------------------------------------------------
\* Inputs
\* ------------------------------------------------------------------------
PointerArgs == {"image", "encodeOptions", "progressContext", "outputAllocator",
                "compressedColorImage", "compressedAlphaImage"}

\* the pointers CompressImage requires; TRUE in args means non-null
RequiredArgs == {"image", "encodeOptions", "progressContext",
                 "outputAllocator", "compressedColorImage"}

ArgSets == [PointerArgs -> BOOLEAN]

\* the enumerants of YUVChromaSubsampling, and a value that is none of them
RecognisedFormats == {"Subsampling400", "Subsampling420", "Subsampling422",
                      "Subsampling444", "IdentityMatrix"}
YUVFormats == RecognisedFormats \cup {"Invalid"}

KnownMatrices == {"BT601", "BT709"}
ColorInfos == KnownMatrices \cup {"Unknown"}

Rasters ==
    [width : 1..MaxDim, height : 1..MaxDim, pad : 0..MaxPad,
     seed : 0..(NumSeeds - 1)]

NoImage == [width |-> 1, height |-> 1, pad |-> 0, seed |-> 0]

\* bgraImage->stride, in bytes
Stride(img) == SizeofColorBgra * (img.width + img.pad)

\* channel c (0 = b, 1 = g, 2 = r, 3 = a) of pixel (x, y): every pixel of a
\* raster differs from every other in alpha and in chroma
PixelByte(img, x, y, c) ==
    CASE c = 0 -> (90 + 50 * x + 45 * y + 7 * img.seed) % 256
      [] c = 1 -> (30 + 70 * y + 11 * img.seed) % 256
      [] c = 2 -> (200 + 196 * x + 23 * img.seed) % 256
      [] OTHER -> (10 + x + 8 * y + 64 * img.seed) % 256

\* the byte at scan0 + off
Scan0(img, off) ==
    LET y == off \div Stride(img)
        x == (off % Stride(img)) \div SizeofColorBgra
        c == (off % Stride(img)) % SizeofColorBgra
    IN IF off >= 0 /\ y < img.height /\ x < img.width
       THEN PixelByte(img, x, y, c)
       ELSE 238   \* padding

\* off addresses a byte of a pixel of the raster
InRaster(img, off) ==
    /\ off >= 0
    /\ off \div Stride(img) < img.height
    /\ (off % Stride(img)) \div SizeofColorBgra < img.width

\* ------------------------------------------------------------------------
\* Native images (aom_image_t)
\* ------------------------------------------------------------------------
Planes == {"Y", "U", "V"}
Handles == {"color", "alpha"}

\* the bytes a fresh allocation may hold: aom_img_alloc does not clear them
HeapFill == {0, 205}

XChromaShift(fmt) == IF fmt = "AOM_IMG_FMT_I444" THEN 0 ELSE 1
YChromaShift(fmt) == IF fmt = "AOM_IMG_FMT_I420" THEN 1 ELSE 0

AlignUp(n, a) == ((n + a - 1) \div a) * a

\* aom_img_alloc(nullptr, fmt, d_w, d_h, align): the storage dimensions are
\* rounded up to the subsampling, the luma stride to align, the chroma
\* stride is the luma stride shifted by the horizontal subsampling
aom_img_alloc(fmt, d_w, d_h, align, fill) ==
    LET xcs == XChromaShift(fmt)
        ycs == YChromaShift(fmt)
        w == AlignUp(d_w, 2 ^ xcs)
        h == AlignUp(d_h, 2 ^ ycs)
        sY == AlignUp(w, align)
        sC == sY \div (2 ^ xcs)
        hC == (h + ycs) \div (2 ^ ycs)
    IN [fmt |-> fmt, d_w |-> d_w, d_h |-> d_h,
        stride |-> [p \in Planes |-> IF p = "Y" THEN sY ELSE sC],
        rows |-> [p \in Planes |-> IF p = "Y" THEN h ELSE hC],
        planes |-> [p \in Planes |->
                      [o \in 0..((IF p = "Y" THEN sY * h ELSE sC * hC) - 1)
                         |-> fill]],
        range |-> "AOM_CR_STUDIO_RANGE",
        monochrome |-> 0]

NoWrites(img) == [p \in Planes |-> [o \in DOMAIN img.planes[p] |-> 0]]

\* a sequence of stores <<offset, byte>> applied in order to a plane
RECURSIVE Store(_, _)
Store(mem, ws) ==
    IF ws = <<>> THEN mem
    ELSE LET w == Head(ws)
         IN Store(IF w[1] \in DOMAIN mem
                  THEN [mem EXCEPT ![w[1]] = w[2]] ELSE mem, Tail(ws))

\* the store counters after the same sequence of stores
RECURSIVE CountStores(_, _)
CountStores(cnt, ws) ==
    IF ws = <<>> THEN cnt
    ELSE LET w == Head(ws)
         IN CountStores(IF w[1] \in DOMAIN cnt
                        THEN [cnt EXCEPT ![w[1]] = @ + 1] ELSE cnt, Tail(ws))

\* some store of the sequence falls outside the plane
Overrun(mem, ws) == \E i \in 1..Len(ws) : ws[i][1] \notin DOMAIN mem

\* ------------------------------------------------------------------------
\* Colour math (ChromaSubsampling.cpp, anonymous namespace)
\* ------------------------------------------------------------------------
\* The coefficients are fixed-point: kr + kg + kb is the value 1.0
One(c) == c.kr + c.kg + c.kb

Coefficiants(id) ==
    IF id = "BT709" THEN [kr |-> 2126, kg |-> 7152, kb |-> 722]
    ELSE [kr |-> 2990, kg |-> 5870, kb |-> 1140]

\* what an unset YUVCoefficiants local may hold
GarbageCoefficiants ==
    {[kr |-> 5000, kg |-> 2500, kb |-> 2500],
     [kr |-> 1000, kg |-> 1000, kb |-> 8000]}

\* the coefficient resolver: a table keyed by the matrix identifier; an
\* identifier it does not know fails and leaves the output as it found it
GetYUVCoefficiants(id, unset) ==
    IF id \in KnownMatrices
    THEN [status |-> "Ok", yuvData |-> Coefficiants(id)]
    ELSE [status |-> "UnsupportedColorMatrix", yuvData |-> unset]

\* floorf(v + 0.5f)
avifRoundf(v) == (2 * v.n + v.d) \div (2 * v.d)

yuvToUNorm(chan, v) ==
    LET biased == IF chan # "Y" THEN Rat(2 * v.n + v.d, 2 * v.d) ELSE v
        clamped == IF biased.n < 0 THEN Rat(0, 1)
                   ELSE IF biased.n > biased.d THEN Rat(1, 1)
                   ELSE biased
    IN avifRoundf(RatMul(clamped, 255))

\* the offset from scan0 of pixel (x, y)
PixelOffset(img, x, y) == (y * Stride(img)) + (x * SizeofColorBgra)

\* lines 132-142: unpack the pixel at (x, y) and convert it
PixelToYUV(img, c, x, y) ==
    LET pixel == PixelOffset(img, x, y)
        b == Scan0(img, pixel)
        g == Scan0(img, pixel + 1)
        r == Scan0(img, pixel + 2)
        Yn == (c.kr * r) + (c.kg * g) + (c.kb * b)
    IN [y |-> Rat(Yn, One(c) * 255),
        u |-> Rat(One(c) * b - Yn, 255 * 2 * (One(c) - c.kb)),
        v |-> Rat(One(c) * r - Yn, 255 * 2 * (One(c) - c.kr))]

\* variant: the block is not clipped at the right edge
BlockWidth_Unclipped(x0, width) == 2

BlockWidth(x0, width) == IF (x0 + 1) >= width THEN 1 ELSE 2

BlockHeight(y0, height) == IF (y0 + 1) >= height THEN 1 ELSE 2

\* the cells of the block in the order the nested loops visit them
BlockOrder(blockWidth, blockHeight) ==
    [i \in 1..(blockWidth * blockHeight) |->
        [blockX |-> (i - 1) % blockWidth, blockY |-> (i - 1) \div blockWidth]]

\* yuvBlock after the conversion loop of one block: only the cells of the
\* block are assigned, the others keep what they held
ConvertBlock(blk, img, c, x0, y0, blockWidth, blockHeight) ==
    [bx \in 0..1 |-> [by \in 0..1 |->
        IF bx < blockWidth /\ by < blockHeight
        THEN PixelToYUV(img, c, x0 + bx, y0 + by)
        ELSE blk[bx][by]]]

\* line 144: the luma stores of one block
LumaStores(blk, x0, y0, blockWidth, blockHeight, yPlaneStride) ==
    LET cells == BlockOrder(blockWidth, blockHeight)
    IN [i \in DOMAIN cells |->
          <<(x0 + cells[i].blockX) + ((y0 + cells[i].blockY) * yPlaneStride),
            yuvToUNorm("Y", blk[cells[i].blockX][cells[i].blockY].y)>>]

\* line 146: the mode that writes chroma per pixel
IsFullChroma(fmt) == fmt = "Subsampling444"

\* lines 146-151: the per-pixel chroma stores of one block
FullChromaStores(chan, fmt, blk, x0, y0, blockWidth, blockHeight, stride) ==
    LET cells == BlockOrder(blockWidth, blockHeight)
    IN IF IsFullChroma(fmt)
       THEN [i \in DOMAIN cells |->
               <<(x0 + cells[i].blockX) + ((y0 + cells[i].blockY) * stride),
                 yuvToUNorm(chan,
                     IF chan = "U"
                     THEN blk[cells[i].blockX][cells[i].blockY].u
                     ELSE blk[cells[i].blockX][cells[i].blockY].v)>>]
       ELSE <<>>

\* sumU += yuvBlock[..][..].u over a sequence of cells, from 0.0f
RECURSIVE SumCells(_, _, _)
SumCells(blk, chan, cells) ==
    IF cells = <<>> THEN Rat(0, 1)
    ELSE LET c == cells[Len(cells)]
             s == blk[c.blockX][c.blockY]
         IN RatAdd(SumCells(blk, chan, SubSeq(cells, 1, Len(cells) - 1)),
                   IF chan = "U" THEN s.u ELSE s.v)

\* variant: the divisor is the size of a full block
TotalSamples420_FixedFour(blockWidth, blockHeight) == 4

\* line 171
TotalSamples420(blockWidth, blockHeight) == blockWidth * blockHeight

\* line 193
TotalSamples422(blockWidth) == blockWidth

\* lines 161-176: the one average of a block under 4:2:0
Average420(blk, x0, y0, blockWidth, blockHeight) ==
    LET cells == BlockOrder(blockWidth, blockHeight)
        sumU == SumCells(blk, "U", cells)
        sumV == SumCells(blk, "V", cells)
        totalSamples == TotalSamples420(blockWidth, blockHeight)
    IN <<[x |-> x0 \div 2, y |-> y0 \div 2,
          sumU |-> sumU, sumV |-> sumV, totalSamples |-> totalSamples,
          avgU |-> RatDiv(sumU, totalSamples),
          avgV |-> RatDiv(sumV, totalSamples)]>>

\* lines 186-198: one average per row of the block under 4:2:2
Average422(blk, x0, y0, blockWidth, blockHeight) ==
    [j \in 1..blockHeight |->
        LET cells == [i \in 1..blockWidth |->
                         [blockX |-> i - 1, blockY |-> j - 1]]
            sumU == SumCells(blk, "U", cells)
            sumV == SumCells(blk, "V", cells)
            totalSamples == TotalSamples422(blockWidth)
        IN [x |-> x0 \div 2, y |-> y0 + (j - 1),
            sumU |-> sumU, sumV |-> sumV, totalSamples |-> totalSamples,
            avgU |-> RatDiv(sumU, totalSamples),
            avgV |-> RatDiv(sumV, totalSamples)]]

\* lines 157-203: the averages of one block for the mode
BlockAverages(fmt, blk, x0, y0, blockWidth, blockHeight) ==
    IF fmt = "Subsampling420"
    THEN Average420(blk, x0, y0, blockWidth, blockHeight)
    ELSE IF fmt = "Subsampling422"
    THEN Average422(blk, x0, y0, blockWidth, blockHeight)
    ELSE <<>>

\* lines 178-179 and 200-201: the stores of the averages
AverageStores(chan, avgs, stride) ==
    [i \in DOMAIN avgs |->
        <<avgs[i].x + (avgs[i].y * stride),
          yuvToUNorm(chan, IF chan = "U" THEN avgs[i].avgU ELSE avgs[i].avgV)>>]

\* variant: the red channel is read in place of alpha
SrcAlpha_ReadsRed(img, src) == Scan0(img, src + 2)

\* src->a, for src the offset of a pixel from scan0
SrcAlpha(img, src) == Scan0(img, src + 3)

\* lines 215-224: the stores of row y of AlphaToY8
AlphaRowStores(img, y, yPlaneStride) ==
    [i \in 1..img.width |->
        <<(y * yPlaneStride) + (i - 1),
          SrcAlpha(img, (y * Stride(img)) + ((i - 1) * SizeofColorBgra))>>]

\* line 280
UVHeight(height) == height \div 2

\* lines 282-287: memset(&plane[y * stride], 0, stride) for y < uvHeight
ZeroStores(uvHeight, stride) ==
    [i \in 1..(uvHeight * stride) |-> <<i - 1, 0>>]

\* ------------------------------------------------------------------------
\* AvifNative.cpp
\* ------------------------------------------------------------------------
\* variant: the check omits compressedColorImage
IsNullParameter_SkipsColorOutput(a) ==
    \E p \in RequiredArgs \ {"compressedColorImage"} : ~a[p]

\* line 135
IsNullParameter(a) == \E p \in RequiredArgs : ~a[p]

\* variant: the callback's return value is not looked at
Cancelled_Ignored(ret) == FALSE

\* line 140: the callback's return value false cancels
Cancelled(ret) == ~ret

\* variant: the default arm falls through to a pixel format
AomFormatOf_DefaultsToI420(fmt) ==
    CASE fmt = "Subsampling422" -> "AOM_IMG_FMT_I422"
      [] fmt \in {"Subsampling444", "IdentityMatrix"} -> "AOM_IMG_FMT_I444"
      [] OTHER -> "AOM_IMG_FMT_I420"

\* lines 54-69: the switch of CompressWithAOM
AomFormatOf(fmt) ==
    CASE fmt \in {"Subsampling400", "Subsampling420"} -> "AOM_IMG_FMT_I420"
      [] fmt = "Subsampling422" -> "AOM_IMG_FMT_I422"
      [] fmt \in {"Subsampling444", "IdentityMatrix"} -> "AOM_IMG_FMT_I444"
      [] OTHER -> "default"

\* variant: a plain pointer, nothing is freed when the scope is left
aom_image_deleter_Leaks(h, id, img) == h

\* the deleter of ScopedAOMImage, run by the destructor of the smart pointer
aom_image_deleter(h, id, img) ==
    IF img # NULL THEN [h EXCEPT ![id].frees = @ + 1] ELSE h

\* leaving the scope of CompressWithAOM destroys alpha, then color
ScopeExit(h, c, a) ==
    aom_image_deleter(aom_image_deleter(h, "alpha", a), "color", c)

\* what the codec may answer
CodecStatuses == {"Ok", "CodecError"}

\* what the locals of ColorToYUV8 may hold before they are assigned
StackGarbage == {Rat(0, 1), Rat(1, 3)}

GarbageBlock(g) == [bx \in 0..1 |-> [by \in 0..1 |-> [y |-> g, u |-> g, v |-> g]]]

Init ==
    /\ pc = "idle"
    /\ args = [p \in PointerArgs |-> TRUE]
    /\ bgraImage = NoImage
    /\ yuvFormat = "Subsampling420"
    /\ colorInfo = "BT601"
    /\ progressDone = 0
    /\ callbackCalls = 0
    /\ callbackReturned = <<>>
    /\ result = "none"
    /\ aomFormat = "none"
    /\ color = NULL
    /\ alpha = NULL
    /\ heap = [h \in Handles |-> [calls |-> 0, allocs |-> 0, frees |-> 0]]
    /\ writes = [h \in Handles |-> [p \in Planes |-> <<>>]]
    /\ oob = FALSE
    /\ yuvCoefficiants = Coefficiants("BT601")
    /\ coeffStatus = "none"
    /\ yuvBlock = GarbageBlock(Rat(0, 1))
    /\ imageX = 0
    /\ imageY = 0
    /\ lastAvg = <<>>
    /\ alphaRow = 0
    /\ codecCalls = 0
    /\ outputs = {}

\* lines 126-153: the entry point, up to the call of CompressWithAOM
CompressImage ==
    /\ pc = "idle"
    /\ \E a \in ArgSets :
        /\ args' = a
        /\ IF IsNullParameter(a)
           THEN /\ result' = "NullParameter"
                /\ pc' = "done"
                /\ UNCHANGED <<bgraImage, yuvFormat, colorInfo, progressDone,
                               callbackCalls, callbackReturned>>
           ELSE \E img \in Rasters, fmt \in YUVFormats, ci \in ColorInfos,
                   ret \in BOOLEAN :
                /\ bgraImage' = img
                /\ yuvFormat' = fmt
                /\ colorInfo' = ci
                /\ progressDone' = progressDone + 1
                /\ callbackCalls' = callbackCalls + 1
                /\ callbackReturned' = Append(callbackReturned, ret)
                /\ IF Cancelled(ret)
                   THEN result' = "UserCancelled" /\ pc' = "done"
                   ELSE result' = result /\ pc' = "CompressWithAOM"
    /\ UNCHANGED <<aomFormat, color, alpha, heap, writes, oob,
                   yuvCoefficiants, coeffStatus, yuvBlock, imageX, imageY,
                   lastAvg, alphaRow, codecCalls, outputs>>

\* lines 51-69: the pixel format of the subsampling mode
CompressWithAOM ==
    /\ pc = "CompressWithAOM"
    /\ IF AomFormatOf(yuvFormat) = "default"
       THEN /\ result' = "UnknownYUVFormat"
            /\ pc' = "done"
            /\ UNCHANGED aomFormat
       ELSE /\ aomFormat' = AomFormatOf(yuvFormat)
            /\ pc' = "ConvertColorToAOMImage"
            /\ UNCHANGED result
    /\ UNCHANGED <<args, bgraImage, yuvFormat, colorInfo, progressDone,
                   callbackCalls, callbackReturned, color, alpha, heap,
                   writes, oob, yuvCoefficiants, coeffStatus, yuvBlock,
                   imageX, imageY, lastAvg, alphaRow, codecCalls, outputs>>

\* ChromaSubsampling.cpp lines 236-242 and AvifNative.cpp lines 71-75: the
\* allocation of the colour image; a failed allocation returns OutOfMemory
ConvertColorToAOMImage ==
    /\ pc = "ConvertColorToAOMImage"
    /\ \E ok \in BOOLEAN :
        IF ~ok
        THEN /\ result' = "OutOfMemory"
             /\ heap' = [heap EXCEPT !["color"].calls = @ + 1]
             /\ pc' = "done"
             /\ UNCHANGED <<color, writes>>
        ELSE \E fill \in HeapFill :
             LET aomImage == aom_img_alloc(aomFormat, bgraImage.width,
                                           bgraImage.height, ImgAlign, fill)
             IN /\ color' = <<[aomImage EXCEPT !.range = "AOM_CR_FULL_RANGE"]>>
                /\ heap' = [heap EXCEPT !["color"].calls = @ + 1,
                                     !["color"].allocs = @ + 1]
                /\ writes' = [writes EXCEPT !["color"] = NoWrites(aomImage)]
                /\ pc' = "ColorToYUV8"
                /\ UNCHANGED result
    /\ UNCHANGED <<args, bgraImage, yuvFormat, colorInfo, progressDone,
                   callbackCalls, callbackReturned, aomFormat, alpha, oob,
                   yuvCoefficiants, coeffStatus, yuvBlock, imageX, imageY,
                   lastAvg, alphaRow, codecCalls, outputs>>

\* lines 98-106: the coefficients are fetched, the outcome of the fetch is
\* not looked at; yuvBlock is declared without an initialiser
ColorToYUV8 ==
    /\ pc = "ColorToYUV8"
    /\ \E unset \in GarbageCoefficiants, g \in StackGarbage :
        LET r == GetYUVCoefficiants(colorInfo, unset)
        IN /\ yuvCoefficiants' = r.yuvData
           /\ coeffStatus' = r.status
           /\ yuvBlock' = GarbageBlock(g)
    /\ imageX' = 0
    /\ imageY' = 0
    /\ lastAvg' = <<>>
    /\ pc' = "ColorBlock"
    /\ UNCHANGED <<args, bgraImage, yuvFormat, colorInfo, progressDone,
                   callbackCalls, callbackReturned, result, aomFormat, color,
                   alpha, heap, writes, oob, alphaRow, codecCalls, outputs>>

\* some pixel the block reads lies outside the raster
ReadsOutside(img, x0, y0, blockWidth, blockHeight) ==
    \E bx \in 0..(blockWidth - 1), by \in 0..(blockHeight - 1) :
        ~InRaster(img, PixelOffset(img, x0 + bx, y0 + by))

\* lines 108-205: one iteration of the inner loop of ColorToYUV8, the block
\* at (imageX, imageY), and the loop increments that follow it
ColorBlock ==
    /\ pc = "ColorBlock"
    /\ LET aomImage == color[1]
           blockWidth == BlockWidth(imageX, bgraImage.width)
           blockHeight == BlockHeight(imageY, bgraImage.height)
           blk == ConvertBlock(yuvBlock, bgraImage, yuvCoefficiants,
                               imageX, imageY, blockWidth, blockHeight)
           avgs == BlockAverages(yuvFormat, blk, imageX, imageY,
                                 blockWidth, blockHeight)
           st == [p \in Planes |->
                    IF p = "Y"
                    THEN LumaStores(blk, imageX, imageY, blockWidth,
                                    blockHeight, aomImage.stride["Y"])
                    ELSE FullChromaStores(p, yuvFormat, blk, imageX, imageY,
                                          blockWidth, blockHeight,
                                          aomImage.stride[p])
                         \o AverageStores(p, avgs, aomImage.stride[p])]
       IN /\ yuvBlock' = blk
          /\ lastAvg' = avgs
          /\ color' = <<[aomImage EXCEPT !.planes =
                          [p \in Planes |-> Store(aomImage.planes[p], st[p])]]>>
          /\ writes' = [writes EXCEPT !["color"] =
                          [p \in Planes |-> CountStores(writes["color"][p], st[p])]]
          /\ oob' = (\/ oob
                     \/ \E p \in Planes : Overrun(aomImage.planes[p], st[p])
                     \/ ReadsOutside(bgraImage, imageX, imageY,
                                     blockWidth, blockHeight))
    /\ IF imageX + 2 < bgraImage.width
       THEN imageX' = imageX + 2 /\ imageY' = imageY /\ pc' = pc
       ELSE /\ imageX' = 0
            /\ imageY' = imageY + 2
            /\ pc' = IF imageY + 2 < bgraImage.height
                     THEN pc ELSE "ConvertAlphaToAOMImage"
    /\ UNCHANGED <<args, bgraImage, yuvFormat, colorInfo, progressDone,
                   callbackCalls, callbackReturned, result, aomFormat, alpha,
                   heap, yuvCoefficiants, coeffStatus, alphaRow, codecCalls,
                   outputs>>

\* AvifNative.cpp lines 77-85 and ChromaSubsampling.cpp lines 264-273: the
\* allocation of the alpha image when an alpha output was asked for
ConvertAlphaToAOMImage ==
    /\ pc = "ConvertAlphaToAOMImage"
    /\ IF ~args["compressedAlphaImage"]
       THEN /\ pc' = "CompressAOMImages"
            /\ UNCHANGED <<result, alpha, heap, writes, alphaRow>>
       ELSE \E ok \in BOOLEAN :
            IF ~ok
            THEN /\ result' = "OutOfMemory"
                 /\ heap' = ScopeExit([heap EXCEPT !["alpha"].calls = @ + 1],
                                       color, alpha)
                 /\ pc' = "done"
                 /\ UNCHANGED <<alpha, writes, alphaRow>>
            ELSE \E fill \in HeapFill :
                 LET aomImage == aom_img_alloc("AOM_IMG_FMT_I420",
                                     bgraImage.width, bgraImage.height,
                                     ImgAlign, fill)
                 IN /\ alpha' = <<[aomImage EXCEPT
                                     !.range = "AOM_CR_FULL_RANGE",
                                     !.monochrome = 1]>>
                    /\ heap' = [heap EXCEPT !["alpha"].calls = @ + 1,
                                         !["alpha"].allocs = @ + 1]
                    /\ writes' = [writes EXCEPT !["alpha"] = NoWrites(aomImage)]
                    /\ alphaRow' = 0
                    /\ pc' = "AlphaToY8"
                    /\ UNCHANGED result
    /\ UNCHANGED <<args, bgraImage, yuvFormat, colorInfo, progressDone,
                   callbackCalls, callbackReturned, aomFormat, color, oob,
                   yuvCoefficiants, coeffStatus, yuvBlock, imageX, imageY,
                   lastAvg, codecCalls, outputs>>

\* lines 213-225: one iteration of the outer loop of AlphaToY8, row alphaRow
AlphaToY8 ==
    /\ pc = "AlphaToY8"
    /\ LET aomImage == alpha[1]
           st == AlphaRowStores(bgraImage, alphaRow, aomImage.stride["Y"])
       IN /\ alpha' = <<[aomImage EXCEPT !.planes["Y"] = Store(@, st)]>>
          /\ writes' = [writes EXCEPT !["alpha"]["Y"] = CountStores(@, st)]
          /\ oob' = (oob \/ Overrun(aomImage.planes["Y"], st))
    /\ alphaRow' = alphaRow + 1
    /\ pc' = IF alphaRow + 1 < bgraImage.height THEN pc ELSE "ZeroChroma"
    /\ UNCHANGED <<args, bgraImage, yuvFormat, colorInfo, progressDone,
                   callbackCalls, callbackReturned, result, aomFormat, color,
                   heap, yuvCoefficiants, coeffStatus, yuvBlock, imageX,
                   imageY, lastAvg, codecCalls, outputs>>

\* lines 280-289: the chroma rows are cleared and the image is returned
ZeroChroma ==
    /\ pc = "ZeroChroma"
    /\ LET aomImage == alpha[1]
           uvHeight == UVHeight(bgraImage.height)
           st == [p \in Planes |->
                    IF p = "Y" THEN <<>>
                    ELSE ZeroStores(uvHeight, aomImage.stride[p])]
       IN /\ alpha' = <<[aomImage EXCEPT !.planes =
                          [p \in Planes |-> Store(aomImage.planes[p], st[p])]]>>
          /\ writes' = [writes EXCEPT !["alpha"] =
                          [p \in Planes |-> CountStores(writes["alpha"][p], st[p])]]
          /\ oob' = (oob \/ \E p \in Planes : Overrun(aomImage.planes[p], st[p]))
    /\ pc' = "CompressAOMImages"
    /\ UNCHANGED <<args, bgraImage, yuvFormat, colorInfo, progressDone,
                   callbackCalls, callbackReturned, result, aomFormat, color,
                   heap, yuvCoefficiants, coeffStatus, yuvBlock, imageX,
                   imageY, lastAvg, alphaRow, codecCalls, outputs>>

\* AvifNative.cpp lines 87-95: the codec is called with both images, its
\* status is returned and the scoped images are destroyed
CompressAOMImages ==
    /\ pc = "CompressAOMImages"
    /\ \E status \in CodecStatuses :
        /\ result' = status
        /\ outputs' = IF status = "Ok"
                      THEN {"compressedColorImage"} \cup
                           (IF alpha # NULL THEN {"compressedAlphaImage"} ELSE {})
                      ELSE outputs
    /\ codecCalls' = codecCalls + 1
    /\ heap' = ScopeExit(heap, color, alpha)
    /\ pc' = "done"
    /\ UNCHANGED <<args, bgraImage, yuvFormat, colorInfo, progressDone,
                   callbackCalls, callbackReturned, aomFormat, color, alpha,
                   writes, oob, yuvCoefficiants, coeffStatus, yuvBlock,
                   imageX, imageY, lastAvg, alphaRow>>

Next ==
    \/ CompressImage
    \/ CompressWithAOM
    \/ ConvertColorToAOMImage
    \/ ColorToYUV8
    \/ ColorBlock
    \/ ConvertAlphaToAOMImage
    \/ AlphaToY8
    \/ ZeroChroma
    \/ CompressAOMImages

Spec == Init /\ [][Next]_vars

\* ------------------------------------------------------------------------
\* Properties
\* ------------------------------------------------------------------------
\* the colour image was allocated and ColorToYUV8 has returned
ColorConverted ==
    /\ color # NULL
    /\ pc \in {"ConvertAlphaToAOMImage", "AlphaToY8", "ZeroChroma",
               "CompressAOMImages", "done"}

\* the alpha image was allocated and AlphaToY8 has returned
AlphaConverted ==
    /\ alpha # NULL
    /\ pc \in {"ZeroChroma", "CompressAOMImages", "done"}

\* ConvertAlphaToAOMImage has returned a non-null image
AlphaReturned ==
    /\ alpha # NULL
    /\ pc \in {"CompressAOMImages", "done"}

NothingAllocated == \A h \in Handles : heap[h].calls = 0 /\ heap[h].allocs = 0

\* C1: a call of CompressImage with one of image, encodeOptions,
\* progressContext, outputAllocator, compressedColorImage null returns
\* NullParameter and changes nothing else: the callback is not invoked,
\* progressDone is not incremented, no native image is allocated, the codec
\* is not invoked and no output pointer is written.
C1_NullParameterNoEffect ==
    (pc = "done" /\ \E p \in PointerArgs \ {"compressedAlphaImage"} : ~args[p])
    => /\ result = "NullParameter"
       /\ callbackCalls = 0
       /\ progressDone = 0
       /\ NothingAllocated
       /\ color = NULL /\ alpha = NULL
       /\ codecCalls = 0
       /\ outputs = {}

C1_Witness ==
    /\ pc = "done"
    /\ result = "NullParameter"
    /\ ~args["compressedColorImage"]
    /\ \A p \in PointerArgs \ {"compressedColorImage"} : args[p]

\* C2: when the progress callback returns false on its first invocation the
\* call returns UserCancelled and neither an allocation (colour or alpha) nor
\* a codec invocation happens at any point of the call, whatever the
\* subsampling mode and whether or not an alpha output was supplied.
C2_CancelBeforeWork ==
    (callbackReturned # <<>> /\ callbackReturned[1] = FALSE)
    => /\ pc = "done"
       /\ result = "UserCancelled"
       /\ NothingAllocated
       /\ color = NULL /\ alpha = NULL
       /\ codecCalls = 0

C2_Witness ==
    /\ pc = "done"
    /\ callbackReturned = <<FALSE>>
    /\ result = "UserCancelled"
    /\ yuvFormat = "Subsampling444"
    /\ args["compressedAlphaImage"]

\* C3: on every outcome every native image allocated during the call has
\* been freed exactly once when the call returns, and none is ever freed
\* twice; when the alpha allocation fails after the colour allocation
\* succeeded the colour image is freed and the call returns OutOfMemory.
C3_FreedExactlyOnce ==
    /\ \A h \in Handles : heap[h].frees <= heap[h].allocs
    /\ pc = "done" => \A h \in Handles : heap[h].frees = heap[h].allocs
    /\ (pc = "done" /\ heap["color"].allocs = 1 /\ heap["alpha"].calls = 1
          /\ heap["alpha"].allocs = 0)
       => (heap["color"].frees = 1 /\ result = "OutOfMemory")

C3_Witness ==
    /\ pc = "done"
    /\ heap["color"].allocs = 1
    /\ heap["alpha"].calls = 1
    /\ heap["alpha"].allocs = 0
    /\ heap["color"].frees = 1
    /\ result = "OutOfMemory"

\* C4: a call that passes the null check and is not cancelled returns
\* UnknownYUVFormat when yuvFormat is none of the five recognised modes, with
\* no allocation attempted before the return; every recognised mode is
\* mapped to a pixel format and never reaches the default arm.
C4_UnknownFormatBeforeAllocation ==
    (callbackReturned = <<TRUE>> /\ pc \notin {"idle", "CompressWithAOM"})
    => IF yuvFormat \in {"Subsampling400", "Subsampling420", "Subsampling422",
                         "Subsampling444", "IdentityMatrix"}
       THEN /\ result # "UnknownYUVFormat"
            /\ aomFormat \in {"AOM_IMG_FMT_I420", "AOM_IMG_FMT_I422",
                              "AOM_IMG_FMT_I444"}
       ELSE /\ pc = "done"
            /\ result = "UnknownYUVFormat"
            /\ NothingAllocated

C4_Witness ==
    /\ pc = "done"
    /\ yuvFormat = "Invalid"
    /\ callbackReturned = <<TRUE>>
    /\ result = "UnknownYUVFormat"

\* C5: when the colour info maps to no known coefficient set the resolution
\* fails with UnsupportedColorMatrix and the failure is propagated at once:
\* CompressImage returns UnsupportedColorMatrix, no plane is filled from
\* unresolved coefficients and the codec is not invoked.
C5_UnsupportedMatrixPropagated ==
    (pc = "done" /\ coeffStatus = "UnsupportedColorMatrix")
    => /\ result = "UnsupportedColorMatrix"
       /\ codecCalls = 0
       /\ \A p \in Planes : \A o \in DOMAIN writes["color"][p] :
              writes["color"][p][o] = 0

\* C6: after the alpha conversion the luma byte at (x, y) is the alpha byte
\* of source pixel (x, y) for every 0 <= x < W, 0 <= y < H, whatever the
\* strides; every such byte is written, and from its own pixel.
C6_AlphaCopiedVerbatim ==
    AlphaConverted =>
        \A x \in 0..(bgraImage.width - 1), y \in 0..(bgraImage.height - 1) :
            LET o == x + (y * alpha[1].stride["Y"])
            IN /\ o \in DOMAIN alpha[1].planes["Y"]
               /\ alpha[1].planes["Y"][o] = PixelByte(bgraImage, x, y, 3)
               /\ writes["alpha"]["Y"][o] = 1

C6_Witness ==
    /\ AlphaConverted
    /\ bgraImage.width = MaxDim /\ bgraImage.height = MaxDim
    /\ bgraImage.pad = MaxPad
    /\ alpha[1].stride["Y"] > bgraImage.width
    /\ alpha[1].planes["Y"][(MaxDim - 1) + ((MaxDim - 1) * alpha[1].stride["Y"])]
          = PixelByte(bgraImage, MaxDim - 1, MaxDim - 1, 3)

\* C7: after ConvertAlphaToAOMImage returns a non-null image every sample of
\* the U and V planes of the 4:2:0 image is zero: every row
\* 0 .. ceil(H/2)-1, the last one when H is odd included.
C7_AlphaChromaZeroed ==
    AlphaReturned =>
        \A p \in {"U", "V"} :
        \A cx \in 0..(CeilHalf(bgraImage.width) - 1),
           cy \in 0..(CeilHalf(bgraImage.height) - 1) :
            alpha[1].planes[p][cx + (cy * alpha[1].stride[p])] = 0

\* C8: under the identity-matrix mode the converter writes, as under 4:4:4,
\* one U and one V sample at (x, y) for every pixel (x, y), so that no
\* chroma sample of the 4:4:4 image is left unwritten.
C8_IdentityWritesFullChroma ==
    (ColorConverted /\ yuvFormat = "IdentityMatrix") =>
        \A p \in {"U", "V"} :
        \A x \in 0..(bgraImage.width - 1), y \in 0..(bgraImage.height - 1) :
            writes["color"][p][x + (y * color[1].stride[p])] = 1

\* the chroma sample positions of the mode for a W x H raster
ChromaPositions(fmt, W, H) ==
    CASE fmt = "Subsampling420" ->
            (0..(CeilHalf(W) - 1)) \X (0..(CeilHalf(H) - 1))
      [] fmt = "Subsampling422" -> (0..(CeilHalf(W) - 1)) \X (0..(H - 1))
      [] fmt = "Subsampling444" -> (0..(W - 1)) \X (0..(H - 1))
      [] OTHER -> {}

\* plane p of the colour image was stored to exactly once at every position
\* of pos and nowhere else
WrittenExactly(p, pos) ==
    \A o \in DOMAIN writes["color"][p] :
        writes["color"][p][o] =
            IF \E q \in pos : o = q[1] + (q[2] * color[1].stride[p])
            THEN 1 ELSE 0

\* C9: the converter writes exactly the chroma positions of the mode, each
\* once and none outside (4:2:0: ceil(W/2) x ceil(H/2), 4:2:2: ceil(W/2) x H,
\* 4:4:4: W x H), and under every mode every luma position exactly once.
C9_PositionsWrittenOnce ==
    ColorConverted =>
        /\ ~oob
        /\ WrittenExactly("Y", (0..(bgraImage.width - 1))
                               \X (0..(bgraImage.height - 1)))
        /\ yuvFormat \in {"Subsampling420", "Subsampling422", "Subsampling444"}
           => \A p \in {"U", "V"} :
                 WrittenExactly(p, ChromaPositions(yuvFormat, bgraImage.width,
                                                   bgraImage.height))

C9_Witness ==
    /\ ColorConverted
    /\ yuvFormat = "Subsampling420"
    /\ bgraImage.width = 3 /\ bgraImage.height = 3
    /\ writes["color"]["U"][1 + color[1].stride["U"]] = 1
    /\ writes["color"]["Y"][2 + (2 * color[1].stride["Y"])] = 1

\* the pixels of the raster that belong to the block of chroma sample
\* (cx, cy): the 2x2 block under 4:2:0, one row of it under 4:2:2
BlockPixelsOf(fmt, cx, cy, W, H) ==
    {q \in (0..(W - 1)) \X (0..(H - 1)) :
        /\ q[1] \div 2 = cx
        /\ IF fmt = "Subsampling420" THEN q[2] \div 2 = cy ELSE q[2] = cy}

\* the sum of the chroma values of a set of pixels
RECURSIVE ChromaSum(_, _)
ChromaSum(chan, S) ==
    IF S = {} THEN Rat(0, 1)
    ELSE LET q == CHOOSE q \in S : TRUE
             c == PixelToYUV(bgraImage, yuvCoefficiants, q[1], q[2])
         IN RatAdd(ChromaSum(chan, S \ {q}), IF chan = "U" THEN c.u ELSE c.v)

\* the byte of a subsampled chroma sample: the mean over its block
ExpectedChroma(chan, fmt, cx, cy) ==
    LET S == BlockPixelsOf(fmt, cx, cy, bgraImage.width, bgraImage.height)
    IN yuvToUNorm(chan, RatDiv(ChromaSum(chan, S), Cardinality(S)))

\* C10: every subsampled chroma sample is the sum of the chroma values of
\* exactly the source pixels of its block that exist, divided by their
\* number (4:2:0: blockWidth*blockHeight, 4:2:2: blockWidth); nothing a
\* previous block left in the block buffer enters a sum; the bottom-right
\* chroma sample of a 3x3 image under 4:2:0 is the chroma of pixel (2, 2).
C10_BoundaryAveraging ==
    /\ (color # NULL /\ yuvFormat \in {"Subsampling420", "Subsampling422"})
       => \A i \in DOMAIN lastAvg :
            LET e == lastAvg[i]
                S == BlockPixelsOf(yuvFormat, e.x, e.y, bgraImage.width,
                                   bgraImage.height)
            IN /\ e.totalSamples = Cardinality(S)
               /\ RatEq(e.sumU, ChromaSum("U", S))
               /\ RatEq(e.sumV, ChromaSum("V", S))
    /\ (ColorConverted /\ yuvFormat \in {"Subsampling420", "Subsampling422"})
       => \A p \in {"U", "V"} :
          \A q \in ChromaPositions(yuvFormat, bgraImage.width, bgraImage.height) :
             color[1].planes[p][q[1] + (q[2] * color[1].stride[p])]
                = ExpectedChroma(p, yuvFormat, q[1], q[2])
    /\ (ColorConverted /\ yuvFormat = "Subsampling420"
          /\ bgraImage.width = 3 /\ bgraImage.height = 3)
       => \A p \in {"U", "V"} :
             color[1].planes[p][1 + color[1].stride[p]]
                = yuvToUNorm(p,
                    IF p = "U"
                    THEN PixelToYUV(bgraImage, yuvCoefficiants, 2, 2).u
                    ELSE PixelToYUV(bgraImage, yuvCoefficiants, 2, 2).v)

C10_Witness ==
    /\ ColorConverted
    /\ yuvFormat = "Subsampling420"
    /\ bgraImage.width = 3 /\ bgraImage.height = 3
    /\ lastAvg # <<>>
    /\ lastAvg[1].totalSamples = 1
    /\ lastAvg[1].x = 1 /\ lastAvg[1].y = 1
    /\ color[1].planes["U"][1 + color[1].stride["U"]]
          = yuvToUNorm("U", PixelToYUV(bgraImage, yuvCoefficiants, 2, 2).u)
    /\ color[1].planes["U"][1 + color[1].stride["U"]]
          # yuvToUNorm("U", RatDiv(PixelToYUV(bgraImage, yuvCoefficiants, 2, 2).u, 4))

====
